---- MODULE Spec2Model ----
(***************************************************************************)
(* Model of pals_2025_demographics.py: the cached Census Reporter fetcher  *)
(* (get_census_data_response), the four category mappers (get_age_data,    *)
(* get_race_data, get_language_data, get_income_data), the hub aggregator  *)
(* and row formatter (get_geo_data, get_hub_data) and the top-level loop.  *)
(*                                                                         *)
(* Numbers that JSON carries are kept in tenths (5.5 is 55, 7 is 70) with  *)
(* a flag telling a JSON float from a JSON integer; percentages are kept   *)
(* in tenths of a percent (12.5 is 125).                                   *)
(***************************************************************************)
EXTENDS Integers, Sequences, FiniteSets, TLC

VARIABLES
    cache,          \* ./cache/: key -> file text, or NoFile
    remote,         \* the remote source's body per key, Unknown until first asked
    requests,       \* key -> number of network requests issued so far (all runs)
    fetched,        \* key -> number of requests that succeeded and were written
    run,            \* number of the current process run
    pc,             \* "loop" | "geo" | "fetch" | "done" | "crashed"
    hubIdx,         \* position of the top-level loop in hub_list
    geoIdx,         \* position of get_hub_data's loop in geo_list
    tblIdx,         \* next statement of get_geo_data's try block (1..4)
    geo_data,       \* get_geo_data's GeoData under construction
    final_totals,   \* get_hub_data's final_totals
    sums,           \* get_hub_data's age_sum, race_sum, language_sum, income_sum
    stdout,         \* lines printed by the current run
    hub_log,        \* per hub of the current run: what get_hub_data did
    last_call,      \* the last get_census_data_response call and how it ended
    run_log,        \* how the current run has gone so far
    prev_run,       \* stdout and run_log of the previous run
    cat_in,         \* input of the category-mapper specification
    cat_out,        \* its result
    pct_in,         \* input of the formatter specification
    pct_out         \* its result

vars == <<cache, remote, requests, fetched, run, pc, hubIdx, geoIdx, tblIdx,
          geo_data, final_totals, sums, stdout, hub_log, last_call, run_log,
          prev_run, cat_in, cat_out, pct_in, pct_out>>

progVars == <<cache, remote, requests, fetched, run, pc, hubIdx, geoIdx, tblIdx,
              geo_data, final_totals, sums, stdout, hub_log, last_call, run_log,
              prev_run>>

-----------------------------------------------------------------------------
(* Bounds of the model *)

\* number of distinct geographies the modelled hub_list names
NumGeos == 2
\* number of process runs sharing the on-disk cache
MaxRuns == 2
\* columns of a table in the category-mapper specification
MaxCols == 3
\* largest category total in the formatter specification, per statistic type
\* with eight categories (age, income), six (race) and three (language)
MaxCount8 == 1
MaxCount6 == 3
MaxCount3 == 8

-----------------------------------------------------------------------------
(* Static configuration *)

AGE_ID == "B01001"
RACE_ID == "B03002"
LANGUAGE_ID == "B16007"
INCOME_ID == "B19001"

\* the order of the four calls in get_geo_data's try block
TableOrder == <<AGE_ID, RACE_ID, LANGUAGE_ID, INCOME_ID>>

Geos == 1..NumGeos

\* hub name -> ordered geography list; the names are in HubOrder (dict order).
\* The script's table names eleven hubs of 2 to 35 geographies; here it is cut
\* to the shapes get_hub_data tells apart: a hub of several geographies, a hub
\* of none, and a hub that shares a geography with an earlier one.
HubOrder == <<"Hub A", "Hub B", "Hub C">>

hub_list ==
    "Hub A" :> [i \in 1..NumGeos |-> i] @@
    "Hub B" :> <<>> @@
    "Hub C" :> <<1>>

Keys == [table : {AGE_ID, RACE_ID, LANGUAGE_ID, INCOME_ID}, geo : Geos]

AgeOrder == <<"0-9", "10-19", "20-29", "30-39", "40-49", "50-59", "60-69", "70+">>

age_categories ==
    "0-9"   :> <<"Under 5 years", "5 to 9 years">> @@
    "10-19" :> <<"10 to 14 years", "15 to 17 years", "18 and 19 years">> @@
    "20-29" :> <<"20 years", "21 years", "22 to 24 years", "25 to 29 years">> @@
    "30-39" :> <<"30 to 34 years", "35 to 39 years">> @@
    "40-49" :> <<"40 to 44 years", "45 to 49 years">> @@
    "50-59" :> <<"50 to 54 years", "55 to 59 years">> @@
    "60-69" :> <<"60 and 61 years", "62 to 64 years", "65 and 66 years",
                 "67 to 69 years">> @@
    "70+"   :> <<"70 to 74 years", "75 to 79 years", "80 to 84 years",
                 "85 years and over">>

RaceOrder == <<"White", "Hispanic", "Black", "Asian", "Other", "Two+">>

race_categories ==
    "White"    :> <<"B03002003">> @@
    "Hispanic" :> <<"B03002012">> @@
    "Black"    :> <<"B03002004">> @@
    "Asian"    :> <<"B03002006">> @@
    "Other"    :> <<"B03002007", "B03002008">> @@
    "Two+"     :> <<"B03002009">>

LanguageOrder == <<"English Only", "Spanish", "Other">>

language_categories ==
    "English Only" :> <<"B16007009">> @@
    "Spanish"      :> <<"B16007010">> @@
    "Other"        :> <<"B16007011", "B16007012", "B16007013">>

IncomeOrder == <<"$0-24k", "$25k-49k", "$50k-74k", "$75k-100k", "$100k-$124k",
                 "$125k-$149k", "$150k-$200k", "$200k+">>

income_categories ==
    "$0-24k"      :> <<"Less than $10,000", "$10,000 to $14,999",
                       "$15,000 to $19,999", "$20,000 to $24,999">> @@
    "$25k-49k"    :> <<"$25,000 to $29,999", "$30,000 to $34,999",
                       "$35,000 to $39,999", "$40,000 to $44,999",
                       "$45,000 to $49,999">> @@
    "$50k-74k"    :> <<"$50,000 to $59,999", "$60,000 to $74,999">> @@
    "$75k-100k"   :> <<"$75,000 to $99,999">> @@
    "$100k-$124k" :> <<"$100,000 to $124,999">> @@
    "$125k-$149k" :> <<"$125,000 to $149,999">> @@
    "$150k-$200k" :> <<"$150,000 to $199,999">> @@
    "$200k+"      :> <<"$200,000 or more">>

\* the label-based and the id-based mappers
LabelBased == {AGE_ID, INCOME_ID}

CategoryOrder(table) ==
    CASE table = AGE_ID -> AgeOrder
      [] table = RACE_ID -> RaceOrder
      [] table = LANGUAGE_ID -> LanguageOrder
      [] table = INCOME_ID -> IncomeOrder

Categories(table) ==
    CASE table = AGE_ID -> age_categories
      [] table = RACE_ID -> race_categories
      [] table = LANGUAGE_ID -> language_categories
      [] table = INCOME_ID -> income_categories

-----------------------------------------------------------------------------
(* Helpers *)

RECURSIVE SumSet(_, _)
\* the sum of f[x] over the finite set S
SumSet(S, f) ==
    IF S = {} THEN 0
    ELSE LET x == CHOOSE y \in S : TRUE IN f[x] + SumSet(S \ {x}, f)

RECURSIVE SumSeq(_)
SumSeq(s) == IF s = <<>> THEN 0 ELSE Head(s) + SumSeq(Tail(s))

SumValues(f) == SumSet(DOMAIN f, f)

Abs(x) == IF x < 0 THEN -x ELSE x

-----------------------------------------------------------------------------
(* JSON numbers and the cache file's text *)

\* A JSON number as r.json() / json.loads return it: an int or a float.
Num(isFloat, tenths) == [float |-> isFloat, tenths |-> tenths]

DigitChar == <<"0", "1", "2", "3", "4", "5", "6", "7", "8", "9">>

DigitVal(ch) == CHOOSE d \in 0..9 : DigitChar[d + 1] = ch

RECURSIVE Digits(_)
\* the decimal digits of a natural number
Digits(n) ==
    IF n < 10 THEN <<DigitChar[n + 1]>>
    ELSE Digits(n \div 10) \o <<DigitChar[(n % 10) + 1]>>

RECURSIVE DigitsValue(_)
DigitsValue(ds) ==
    IF ds = <<>> THEN 0
    ELSE 10 * DigitsValue(SubSeq(ds, 1, Len(ds) - 1)) + DigitVal(ds[Len(ds)])

\* a bug json.dumps does not have: the fraction of a float is dropped
NumTextNoFraction(n) ==
    (IF n.tenths < 0 THEN <<"-">> ELSE <<>>) \o Digits(Abs(n.tenths) \div 10)

\* json.dumps of a number: an int prints its digits, a float its repr
NumText(n) ==
    (IF n.tenths < 0 THEN <<"-">> ELSE <<>>)
    \o Digits(Abs(n.tenths) \div 10)
    \o (IF n.float THEN <<".", DigitChar[(Abs(n.tenths) % 10) + 1]>> ELSE <<>>)

\* json.loads of a number's text
ParseNum(text) ==
    LET neg == text # <<>> /\ Head(text) = "-"
        body == IF neg THEN Tail(text) ELSE text
        dots == {i \in 1..Len(body) : body[i] = "."}
        isFloat == dots # {}
        dot == IF isFloat THEN CHOOSE i \in dots : TRUE ELSE Len(body) + 1
        whole == DigitsValue(SubSeq(body, 1, dot - 1))
        frac == IF isFloat THEN DigitVal(body[dot + 1]) ELSE 0
        mag == 10 * whole + frac
    IN Num(isFloat, IF neg THEN -mag ELSE mag)

\* json.dumps(js_data): the text written to the cache file
Dumps(js) ==
    [js EXCEPT !.estimate = [c \in DOMAIN js.estimate |-> NumText(js.estimate[c])]]

\* json.loads(cache_file.read())
Loads(text) ==
    [text EXCEPT !.estimate = [c \in DOMAIN text.estimate |-> ParseNum(text.estimate[c])]]

\* CensusDataResponseSchema().load(js_data): the required field "tables" must
\* be there; every estimate becomes a float
SchemaAccepts(js) == js.has_tables

SchemaLoad(js) ==
    [geo |-> js.geo,
     columns |-> js.columns,
     estimate |-> [c \in DOMAIN js.estimate |-> js.estimate[c].tenths]]

\* int(x) of a float kept in tenths: truncation toward zero
PyInt(tenths) == IF tenths >= 0 THEN tenths \div 10 ELSE -((-tenths) \div 10)

-----------------------------------------------------------------------------
(* Category mappers *)

\* column ids of the table whose name is the label
ColumnNums(resp, label) == {c \in DOMAIN resp.columns : resp.columns[c] = label}

\* a bug the mappers do not have: the estimates are summed, then truncated
LabelTotalTruncSum(resp, labels) ==
    PyInt(SumSeq([i \in 1..Len(labels) |->
            SumSet(ColumnNums(resp, labels[i]), resp.estimate)]))

\* total of one label-based category: every matching column, truncated, added
LabelTotal(resp, labels) ==
    SumSeq([i \in 1..Len(labels) |->
        SumSet(ColumnNums(resp, labels[i]),
               [c \in ColumnNums(resp, labels[i]) |-> PyInt(resp.estimate[c])])])

\* total of one id-based category
IdTotal(resp, ids) == SumSeq([i \in 1..Len(ids) |-> PyInt(resp.estimate[ids[i]])])

\* the lookups that raise KeyError: data[geo], and estimate[c] of a used column
LabelKeyError(resp, geo, cats) ==
    \/ resp.geo # geo
    \/ \E k \in DOMAIN cats : \E i \in 1..Len(cats[k]) :
          \E c \in ColumnNums(resp, cats[k][i]) : c \notin DOMAIN resp.estimate

IdKeyError(resp, geo, cats) ==
    \/ resp.geo # geo
    \/ \E k \in DOMAIN cats : \E i \in 1..Len(cats[k]) :
          cats[k][i] \notin DOMAIN resp.estimate

Raised(e) == [raised |-> e]
Returned(v) == [raised |-> "", value |-> v]

get_age_data(age_data, geo) ==
    IF LabelKeyError(age_data, geo, age_categories) THEN Raised("KeyError")
    ELSE Returned([k \in DOMAIN age_categories |->
                      LabelTotal(age_data, age_categories[k])])

get_race_data(race_data, geo) ==
    IF IdKeyError(race_data, geo, race_categories) THEN Raised("KeyError")
    ELSE Returned([k \in DOMAIN race_categories |->
                      IdTotal(race_data, race_categories[k])])

get_language_data(language_data, geo) ==
    IF IdKeyError(language_data, geo, language_categories) THEN Raised("KeyError")
    ELSE Returned([k \in DOMAIN language_categories |->
                      IdTotal(language_data, language_categories[k])])

get_income_data(income_data, geo) ==
    IF LabelKeyError(income_data, geo, income_categories) THEN Raised("KeyError")
    ELSE Returned([k \in DOMAIN income_categories |->
                      LabelTotal(income_data, income_categories[k])])

Categorize(table, resp, geo) ==
    CASE table = AGE_ID -> get_age_data(resp, geo)
      [] table = RACE_ID -> get_race_data(resp, geo)
      [] table = LANGUAGE_ID -> get_language_data(resp, geo)
      [] table = INCOME_ID -> get_income_data(resp, geo)

-----------------------------------------------------------------------------
(* Hub aggregation and formatting *)

EmptyMap == [k \in {} |-> 0]

\* GeoData(): four empty dicts, keyed here by table id
GeoData == [t \in {AGE_ID, RACE_ID, LANGUAGE_ID, INCOME_ID} |-> EmptyMap]

ZeroSums == [t \in {AGE_ID, RACE_ID, LANGUAGE_ID, INCOME_ID} |-> 0]

\* a bug sum_totals does not have: s adds the running sums, not the addends
sum_totals_running(current, add) ==
    LET new == [k \in DOMAIN current \cup DOMAIN add |->
                   (IF k \in DOMAIN current THEN current[k] ELSE 0)
                   + (IF k \in DOMAIN add THEN add[k] ELSE 0)]
    IN [current |-> new, s |-> SumSet(DOMAIN add, new)]

\* sum_totals: current[num] = current.get(num, 0) + add[num]; returns sum(add)
sum_totals(current, add) ==
    [current |-> [k \in DOMAIN current \cup DOMAIN add |->
                     (IF k \in DOMAIN current THEN current[k] ELSE 0)
                     + (IF k \in DOMAIN add THEN add[k] ELSE 0)],
     s |-> SumValues(add)]

\* n / d rounded to an integer, a tie going to the even neighbour
RoundHalfEven(n, d) ==
    LET q == n \div d
        r == n % d
    IN IF 2 * r < d THEN q
       ELSE IF 2 * r > d THEN q + 1
       ELSE IF q % 2 = 0 THEN q ELSE q + 1

\* a bug as_percent does not have: round(x) in place of round(x, 1)
as_percent_whole(num, total) == {10 * RoundHalfEven(100 * num, total)}

\* as_percent in tenths of a percent, for total # 0.  Python rounds the
\* double num / total * 100 to the nearest tenth; when the exact quotient lies
\* halfway between two tenths the double may lie on either side of the tie, or
\* on it: every result the rounding can give is an outcome.
as_percent_outcomes(num, total) ==
    LET q == (1000 * num) \div total
        r == (1000 * num) % total
    IN IF 2 * r < total THEN {q}
       ELSE IF 2 * r > total THEN {q + 1}
       ELSE {q, q + 1}

\* the outcome printed in a row: a tie goes to the even tenth
as_percent(num, total) ==
    LET S == as_percent_outcomes(num, total)
    IN IF \E x \in S : x % 2 = 0 /\ Cardinality(S) = 2
       THEN CHOOSE x \in S : x % 2 = 0
       ELSE CHOOSE x \in S : TRUE

\* round(age_sum / 1_000_000, 1), in tenths of a million
Millions(age_sum) == RoundHalfEven(age_sum, 100000)

NameLine(hub) == [kind |-> "name", hub |-> hub]
GettingLine(key) == [kind |-> "getting", key |-> key]
ErrorLine(geo) == [kind |-> "error", geo |-> geo]

Percents(table, totals, total) ==
    [i \in 1..Len(CategoryOrder(table)) |->
        as_percent(totals[CategoryOrder(table)[i]], total)]

RowLine(hub, ft, s) ==
    [kind |-> "row", hub |-> hub, millions |-> Millions(s[AGE_ID]),
     age |-> Percents(AGE_ID, ft[AGE_ID], s[AGE_ID]),
     race |-> Percents(RACE_ID, ft[RACE_ID], s[RACE_ID]),
     language |-> Percents(LANGUAGE_ID, ft[LANGUAGE_ID], s[LANGUAGE_ID]),
     income |-> Percents(INCOME_ID, ft[INCOME_ID], s[INCOME_ID])]

\* a bug get_hub_data does not have: the name-only row needs every sum zero
HubOutputAllZero(hub, ft, s) ==
    IF \A t \in DOMAIN s : s[t] = 0
    THEN [raised |-> "", lines |-> <<NameLine(hub)>>]
    ELSE IF \E t \in DOMAIN s : s[t] = 0
    THEN [raised |-> "ZeroDivisionError", lines |-> <<>>]
    ELSE [raised |-> "", lines |-> <<RowLine(hub, ft, s)>>]

\* what get_hub_data prints once its loop is over: the hub's name alone when
\* age_sum is 0; nothing when building cols divides by a zero sum; else the row
HubOutput(hub, ft, s) ==
    IF s[AGE_ID] = 0
    THEN [raised |-> "", lines |-> <<NameLine(hub)>>]
    ELSE IF s[RACE_ID] = 0 \/ s[LANGUAGE_ID] = 0 \/ s[INCOME_ID] = 0
    THEN [raised |-> "ZeroDivisionError", lines |-> <<>>]
    ELSE [raised |-> "", lines |-> <<RowLine(hub, ft, s)>>]

-----------------------------------------------------------------------------
(* The remote source *)

Js(geo, columns, estimate) ==
    [has_tables |-> TRUE, geo |-> geo, columns |-> columns, estimate |-> estimate]

\* a JSON document without the required "tables" field
JsNoTables == [has_tables |-> FALSE, geo |-> 0, columns |-> EmptyMap,
               estimate |-> EmptyMap]

\* a 200 answer whose body r.json() decodes to js
JsonBody(js) == [known |-> TRUE, json |-> TRUE, js |-> js]
\* a 200 answer whose body is not JSON
NotJsonBody == [known |-> TRUE, json |-> FALSE, js |-> JsNoTables]
\* the body of a key never fetched with success
Unknown == [known |-> FALSE, json |-> FALSE, js |-> JsNoTables]

I(n) == Num(FALSE, 10 * n)
F(tenths) == Num(TRUE, tenths)

AgeColumns ==
    "B01001001" :> "Total:" @@
    "B01001003" :> "Under 5 years" @@
    "B01001004" :> "5 to 9 years" @@
    "B01001005" :> "10 to 14 years" @@
    "B01001027" :> "Under 5 years"

IncomeColumns ==
    "B19001001" :> "Total:" @@
    "B19001002" :> "Less than $10,000" @@
    "B19001017" :> "$200,000 or more"

IdColumns(ids) == [c \in ids |-> "column"]

RaceIds == {"B03002003", "B03002004", "B03002006", "B03002007", "B03002008",
            "B03002009", "B03002012"}
LanguageIds == {"B16007009", "B16007010", "B16007011", "B16007012", "B16007013"}

\* bodies on which the call succeeds: tables with populations (some estimates
\* fractional) and all-zero tables
OkBodies(key) ==
    CASE key.table = AGE_ID ->
            {Js(key.geo, AgeColumns,
                "B01001001" :> I(24) @@ "B01001003" :> F(55) @@ "B01001004" :> I(7)
                @@ "B01001005" :> I(6) @@ "B01001027" :> F(65)),
             Js(key.geo, AgeColumns, [c \in DOMAIN AgeColumns |-> F(0)])}
      [] key.table = RACE_ID ->
            {Js(key.geo, IdColumns(RaceIds),
                "B03002003" :> I(3) @@ "B03002004" :> I(1) @@ "B03002006" :> I(1)
                @@ "B03002007" :> F(15) @@ "B03002008" :> I(0)
                @@ "B03002009" :> I(0) @@ "B03002012" :> I(2)),
             Js(key.geo, IdColumns(RaceIds), [c \in RaceIds |-> I(0)])}
      [] key.table = LANGUAGE_ID ->
            {Js(key.geo, IdColumns(LanguageIds),
                "B16007009" :> I(4) @@ "B16007010" :> I(1) @@ "B16007011" :> I(1)
                @@ "B16007012" :> I(0) @@ "B16007013" :> I(0))}
      [] key.table = INCOME_ID ->
            {Js(key.geo, IncomeColumns,
                "B19001001" :> I(3) @@ "B19001002" :> I(2) @@ "B19001017" :> I(1))}

\* bodies on which the call fails: an estimate is missing (KeyError), the
\* data is keyed by another geography (KeyError), "tables" is missing
\* (ValidationError), the body is not JSON (JSONDecodeError)
BadBodies(key) ==
    CASE key.table = AGE_ID ->
            {JsonBody(Js(key.geo, AgeColumns, "B01001003" :> F(55))), NotJsonBody}
      [] key.table = RACE_ID ->
            {JsonBody(Js(key.geo, IdColumns(RaceIds), "B03002003" :> I(3)))}
      [] key.table = LANGUAGE_ID ->
            {JsonBody(Js(0, IdColumns(LanguageIds), [c \in LanguageIds |-> I(1)])),
             NotJsonBody}
      [] key.table = INCOME_ID ->
            {JsonBody(JsNoTables)}

Bodies(key) == {JsonBody(js) : js \in OkBodies(key)} \cup BadBodies(key)

\* what one request may be answered: a non-success status, or 200 with the
\* key's body (the same body on every request for the key)
Answers(key) ==
    {[status |-> 500, body |-> Unknown]}
    \cup {[status |-> 200, body |-> b] :
            b \in IF remote[key].known THEN {remote[key]} ELSE Bodies(key)}

-----------------------------------------------------------------------------
(* get_census_data_response *)

NoFile == [exists |-> FALSE, text |-> Dumps(JsNoTables)]
File(text) == [exists |-> TRUE, text |-> text]

\* a bug the fetcher does not have: the cache file is never looked for
CacheExistsNever(c, key) == FALSE

\* os.path.exists(cache_path)
CacheExists(c, key) == c[key].exists

\* a bug the fetcher does not have: the body is written before the status check
CacheAfterMissAnyStatus(c, key, status, body) ==
    IF body.json THEN [c EXCEPT ![key] = File(Dumps(body.js))]
    ELSE [c EXCEPT ![key] = File(Dumps(JsNoTables))]

\* the cache after a miss: written once the status is 200 and r.json() has
\* decoded the body, before the schema load
CacheAfterMiss(c, key, status, body) ==
    IF status = 200 /\ body.json THEN [c EXCEPT ![key] = File(Dumps(body.js))]
    ELSE c

\* One call.  c is the cache, ans the answer a request would get.  Result:
\* the exception raised ("" for none), the js_data handed to the schema, the
\* cache afterwards and whether the network was asked.
get_census_data_response(c, key, ans) ==
    IF CacheExists(c, key)
    THEN LET js == Loads(c[key].text)
         IN [hit |-> TRUE, status |-> 0, js |-> js, cache |-> c,
             raised |-> IF SchemaAccepts(js) THEN "" ELSE "ValidationError"]
    ELSE LET c2 == CacheAfterMiss(c, key, ans.status, ans.body)
             js == IF ans.status = 200 /\ ans.body.json THEN ans.body.js
                   ELSE JsNoTables
         IN [hit |-> FALSE, status |-> ans.status, js |-> js, cache |-> c2,
             raised |-> IF ans.status # 200 THEN "StatusError"
                        ELSE IF ~ans.body.json THEN "JSONDecodeError"
                        ELSE IF SchemaAccepts(js) THEN "" ELSE "ValidationError"]

-----------------------------------------------------------------------------
(* The program: top-level loop, get_hub_data, get_geo_data *)

Hubs == {HubOrder[i] : i \in 1..Len(HubOrder)}

Hub == HubOrder[hubIdx]
geo_list == hub_list[Hub]
Geo == geo_list[geoIdx]
Key == [table |-> TableOrder[tblIdx], geo |-> Geo]

HubNone == [status |-> "none", lines |-> <<>>, sums |-> ZeroSums]
RunLogInit == [attempted |-> {}, failed |-> FALSE, failedAt |-> 0,
               status_failure |-> FALSE]
NoCall == [key |-> [table |-> AGE_ID, geo |-> 1], hit |-> FALSE, status |-> 0,
           raised |-> "none"]

CatIdle == [table |-> AGE_ID, geo |-> 1,
            resp |-> [geo |-> 1, columns |-> <<>>, estimate |-> <<>>]]
CatNone == [done |-> FALSE, raised |-> "", value |-> EmptyMap]
PctIdle == [table |-> AGE_ID, totals |-> EmptyMap]
PctNone == [done |-> FALSE, pcts |-> <<>>]

\* a fresh process: nothing printed, nothing attempted
ProcessStart ==
    /\ pc' = "loop"
    /\ hubIdx' = 1
    /\ geoIdx' = 1
    /\ tblIdx' = 1
    /\ geo_data' = GeoData
    /\ final_totals' = GeoData
    /\ sums' = ZeroSums
    /\ stdout' = <<>>
    /\ hub_log' = [h \in Hubs |-> HubNone]
    /\ last_call' = NoCall
    /\ run_log' = RunLogInit

ProgInit ==
    /\ cache = [k \in Keys |-> NoFile]
    /\ remote = [k \in Keys |-> Unknown]
    /\ requests = [k \in Keys |-> 0]
    /\ fetched = [k \in Keys |-> 0]
    /\ run = 1
    /\ pc = "loop"
    /\ hubIdx = 1
    /\ geoIdx = 1
    /\ tblIdx = 1
    /\ geo_data = GeoData
    /\ final_totals = GeoData
    /\ sums = ZeroSums
    /\ stdout = <<>>
    /\ hub_log = [h \in Hubs |-> HubNone]
    /\ last_call = NoCall
    /\ run_log = RunLogInit
    /\ prev_run = [pc |-> "none", stdout |-> <<>>, log |-> RunLogInit]

\* the first run of the script, ./cache/ empty
Init ==
    /\ ProgInit
    /\ cat_in = CatIdle
    /\ cat_out = CatNone
    /\ pct_in = PctIdle
    /\ pct_out = PctNone

\* a bug the top-level loop does not have: each hub's exception is caught
CaughtPerHub(i) == [pc |-> "loop", hubIdx |-> i + 1]

\* `for hub in hub_list: get_hub_data(hub)` has no try: an exception leaving
\* get_hub_data ends the process
UncaughtException(i) == [pc |-> "crashed", hubIdx |-> i]

\* a bug get_geo_data does not have: the exception is swallowed and the hub
\* is printed as if it had no data
PrintedOnErrorWithRow(hub, geo) == <<ErrorLine(geo), NameLine(hub)>>

\* get_geo_data's except clause prints the geography and re-raises; nothing
\* else is printed on the way out of get_hub_data
PrintedOnError(hub, geo) == <<ErrorLine(geo)>>

\* an exception leaves get_hub_data for hub number hubIdx
Propagate(status, lines, statusFailure) ==
    /\ pc' = UncaughtException(hubIdx).pc
    /\ hubIdx' = UncaughtException(hubIdx).hubIdx
    /\ hub_log' = [hub_log EXCEPT ![Hub] =
                      [status |-> status, lines |-> lines, sums |-> sums]]
    /\ run_log' = [run_log EXCEPT !.failed = TRUE, !.failedAt = hubIdx,
                      !.status_failure = @ \/ statusFailure]

\* the top-level loop calls get_hub_data(hub): the accumulators start empty
CallGetHubData ==
    /\ pc = "loop"
    /\ hubIdx <= Len(HubOrder)
    /\ pc' = "geo"
    /\ geoIdx' = 1
    /\ final_totals' = GeoData
    /\ sums' = ZeroSums
    /\ hub_log' = [hub_log EXCEPT ![Hub] = [HubNone EXCEPT !.status = "running"]]
    /\ run_log' = [run_log EXCEPT !.attempted = @ \cup {Hub}]
    /\ UNCHANGED <<cache, remote, requests, fetched, run, hubIdx, tblIdx, geo_data,
                   stdout, last_call, prev_run, cat_in, cat_out, pct_in, pct_out>>

\* the top-level loop is over
LoopEnd ==
    /\ pc = "loop"
    /\ hubIdx > Len(HubOrder)
    /\ pc' = "done"
    /\ UNCHANGED <<cache, remote, requests, fetched, run, hubIdx, geoIdx, tblIdx,
                   geo_data, final_totals, sums, stdout, hub_log, last_call,
                   run_log, prev_run, cat_in, cat_out, pct_in, pct_out>>

\* get_hub_data's loop calls get_geo_data(geo)
CallGetGeoData ==
    /\ pc = "geo"
    /\ geoIdx <= Len(geo_list)
    /\ pc' = "fetch"
    /\ tblIdx' = 1
    /\ geo_data' = GeoData
    /\ UNCHANGED <<cache, remote, requests, fetched, run, hubIdx, geoIdx,
                   final_totals, sums, stdout, hub_log, last_call, run_log,
                   prev_run, cat_in, cat_out, pct_in, pct_out>>

\* one statement of get_geo_data's try block: get_<table>_data(geo), that is
\* get_census_data_response and the table's category mapper; on an exception
\* the except clause, and the exception's way up to the top level
TableCall(ans) ==
    \E r \in {get_census_data_response(cache, Key, ans)} :
    \E cat \in {IF r.raised = "" THEN Categorize(Key.table, SchemaLoad(r.js), Geo)
                ELSE Raised(r.raised)} :
       /\ cache' = r.cache
       /\ requests' = IF r.hit THEN requests ELSE [requests EXCEPT ![Key] = @ + 1]
       /\ fetched' = IF ~r.hit /\ r.cache[Key].exists
                     THEN [fetched EXCEPT ![Key] = @ + 1] ELSE fetched
       /\ remote' = IF ~r.hit /\ ans.status = 200
                    THEN [remote EXCEPT ![Key] = ans.body] ELSE remote
       /\ last_call' = [key |-> Key, hit |-> r.hit, status |-> r.status,
                        raised |-> r.raised]
       /\ IF cat.raised = ""
          THEN /\ geo_data' = [geo_data EXCEPT ![Key.table] = cat.value]
               /\ tblIdx' = tblIdx + 1
               /\ stdout' = stdout \o (IF r.hit THEN <<>> ELSE <<GettingLine(Key)>>)
               /\ UNCHANGED <<pc, hubIdx, hub_log, run_log>>
          ELSE /\ stdout' = stdout \o (IF r.hit THEN <<>> ELSE <<GettingLine(Key)>>)
                                \o PrintedOnError(Hub, Geo)
               /\ Propagate("failed", <<>>, r.raised = "StatusError")
               /\ UNCHANGED <<geo_data, tblIdx>>
       /\ UNCHANGED <<run, geoIdx, final_totals, sums, prev_run,
                      cat_in, cat_out, pct_in, pct_out>>

\* the cache file exists: no request
FetchFromCache ==
    /\ pc = "fetch"
    /\ tblIdx <= Len(TableOrder)
    /\ CacheExists(cache, Key)
    /\ TableCall([status |-> 0, body |-> Unknown])

\* no cache file: "getting data for ..." and one request
FetchFromRemote ==
    /\ pc = "fetch"
    /\ tblIdx <= Len(TableOrder)
    /\ ~CacheExists(cache, Key)
    /\ \E ans \in Answers(Key) : TableCall(ans)

\* get_geo_data returns; get_hub_data adds the geography's four mappings
ReturnGeoData ==
    /\ pc = "fetch"
    /\ tblIdx > Len(TableOrder)
    /\ LET acc == [t \in DOMAIN final_totals |->
                      sum_totals(final_totals[t], geo_data[t])]
       IN /\ final_totals' = [t \in DOMAIN final_totals |-> acc[t].current]
          /\ sums' = [t \in DOMAIN sums |-> sums[t] + acc[t].s]
    /\ geoIdx' = geoIdx + 1
    /\ pc' = "geo"
    /\ UNCHANGED <<cache, remote, requests, fetched, run, hubIdx, tblIdx, geo_data,
                   stdout, hub_log, last_call, run_log, prev_run,
                   cat_in, cat_out, pct_in, pct_out>>

\* get_hub_data's loop is over: the hub's line is printed, or as_percent
\* divides by zero
PrintHub ==
    /\ pc = "geo"
    /\ geoIdx > Len(geo_list)
    /\ LET out == HubOutput(Hub, final_totals, sums)
       IN IF out.raised = ""
          THEN /\ stdout' = stdout \o out.lines
               /\ pc' = "loop"
               /\ hubIdx' = hubIdx + 1
               /\ hub_log' = [hub_log EXCEPT ![Hub] =
                                 [status |-> "printed", lines |-> out.lines,
                                  sums |-> sums]]
               /\ UNCHANGED run_log
          ELSE /\ stdout' = stdout
               /\ Propagate("raised", out.lines, FALSE)
    /\ UNCHANGED <<cache, remote, requests, fetched, run, geoIdx, tblIdx, geo_data,
                   final_totals, sums, last_call, prev_run,
                   cat_in, cat_out, pct_in, pct_out>>

\* the script is run again; ./cache/ and the remote data are as they were left
NextRun ==
    /\ pc \in {"done", "crashed"}
    /\ run < MaxRuns
    /\ run' = run + 1
    /\ prev_run' = [pc |-> pc, stdout |-> stdout, log |-> run_log]
    /\ ProcessStart
    /\ UNCHANGED <<cache, remote, requests, fetched, cat_in, cat_out, pct_in, pct_out>>

Next ==
    \/ CallGetHubData
    \/ LoopEnd
    \/ CallGetGeoData
    \/ FetchFromCache
    \/ FetchFromRemote
    \/ ReturnGeoData
    \/ PrintHub
    \/ NextRun

Spec == Init /\ [][Next]_vars

-----------------------------------------------------------------------------
(* The label-based category mappers on every small table *)

\* labels a column may carry: two of one category, one of another, one of none
CatLabels(table) ==
    IF table = AGE_ID
    THEN {"Under 5 years", "5 to 9 years", "10 to 14 years", "Total:"}
    ELSE {"Less than $10,000", "$10,000 to $14,999", "$200,000 or more", "Total:"}

\* estimates after the schema load, in tenths: 0.5, 5.0, 7.0, 7.5
CatEstimates == {5, 50, 70, 75}

\* tables of MaxCols columns; the last column's estimate may be missing
CatInit ==
    /\ ProgInit
    /\ \E t \in LabelBased, n \in {MaxCols - 1, MaxCols} :
         \E cols \in [1..MaxCols -> CatLabels(t)], est \in [1..n -> CatEstimates] :
            cat_in = [table |-> t, geo |-> 1,
                      resp |-> [geo |-> 1, columns |-> cols, estimate |-> est]]
    /\ cat_out = CatNone
    /\ pct_in = PctIdle
    /\ pct_out = PctNone

CatResult(r) ==
    [done |-> TRUE, raised |-> r.raised,
     value |-> IF r.raised = "" THEN r.value ELSE EmptyMap]

CategorizeAge ==
    /\ ~cat_out.done
    /\ cat_in.table = AGE_ID
    /\ cat_out' = CatResult(get_age_data(cat_in.resp, cat_in.geo))
    /\ UNCHANGED <<progVars, cat_in, pct_in, pct_out>>

CategorizeIncome ==
    /\ ~cat_out.done
    /\ cat_in.table = INCOME_ID
    /\ cat_out' = CatResult(get_income_data(cat_in.resp, cat_in.geo))
    /\ UNCHANGED <<progVars, cat_in, pct_in, pct_out>>

CatNext == CategorizeAge \/ CategorizeIncome

SpecCat == CatInit /\ [][CatNext]_vars

-----------------------------------------------------------------------------
(* The percentage columns of one statistic type on every small hub total *)

MaxCountOf(table) ==
    CASE table = AGE_ID -> MaxCount8
      [] table = INCOME_ID -> MaxCount8
      [] table = RACE_ID -> MaxCount6
      [] table = LANGUAGE_ID -> MaxCount3

\* final_totals of one type, its grand total not zero
PctInit ==
    /\ ProgInit
    /\ cat_in = CatIdle
    /\ cat_out = CatNone
    /\ \E t \in {AGE_ID, RACE_ID, LANGUAGE_ID, INCOME_ID} :
         \E totals \in [DOMAIN Categories(t) -> 0..MaxCountOf(t)] :
            /\ SumValues(totals) # 0
            /\ pct_in = [table |-> t, totals |-> totals]
    /\ pct_out = PctNone

\* the type's columns of the row, for each way the ties may fall
FormatPercents ==
    /\ ~pct_out.done
    /\ LET order == CategoryOrder(pct_in.table)
           total == SumValues(pct_in.totals)
           outs == [i \in 1..Len(order) |->
                       as_percent_outcomes(pct_in.totals[order[i]], total)]
           ties == {i \in 1..Len(order) : Cardinality(outs[i]) > 1}
       IN \E up \in SUBSET ties :
            pct_out' = [done |-> TRUE,
                        pcts |-> [i \in 1..Len(order) |->
                                    IF i \in up
                                    THEN CHOOSE x \in outs[i] : \A y \in outs[i] : y <= x
                                    ELSE CHOOSE x \in outs[i] : \A y \in outs[i] : x <= y]]
    /\ UNCHANGED <<progVars, cat_in, cat_out, pct_in>>

PctNext == FormatPercents

SpecPct == PctInit /\ [][PctNext]_vars

-----------------------------------------------------------------------------
(* Properties *)

\* the lines of out that are a hub's row, full or name-only
HubLines(out, h) ==
    {i \in 1..Len(out) : out[i].kind \in {"row", "name"} /\ out[i].hub = h}

IsOutputLine(line) == line.kind # "getting"

\* a run's output without its "getting data for ..." lines
WithoutGetting(out) == SelectSeq(out, IsOutputLine)

RunEnded == pc \in {"done", "crashed"}

\* a get_<table>_data call is about to be made
FetchStep == pc = "fetch" /\ tblIdx <= Len(TableOrder)

\* C1: when the fetch or the categorization of a table fails for a geography
\* of a hub, no row is printed for that hub, neither the full row nor the
\* name-only row.
C1_AllOrNothing ==
    \A h \in Hubs : hub_log[h].status = "failed" => HubLines(stdout, h) = {}

\* C1 witness: the second geography of a hub has failed after the first one
\* was added to the hub's totals.
C1_Witness ==
    /\ hub_log[Hub].status = "failed"
    /\ geoIdx = 2
    /\ sums[AGE_ID] > 0
    /\ stdout[Len(stdout)] = ErrorLine(Geo)

\* C2 as stated: when the run has ended, every hub that follows a failed hub
\* in hub_list has been attempted.
C2_RemainingHubsAttempted ==
    (RunEnded /\ run_log.failed) =>
        \A i \in (run_log.failedAt + 1)..Len(HubOrder) :
            HubOrder[i] \in run_log.attempted

\* C2 amended: a failure while aggregating a hub ends the whole run; the hubs
\* attempted are those up to the failing hub, and none after it.
C2_FailureEndsRun ==
    run_log.failed =>
        /\ pc = "crashed"
        /\ run_log.attempted = {HubOrder[i] : i \in 1..run_log.failedAt}

\* C2 witness: the first hub has failed on a fetch and hubs follow it.
C2_Witness ==
    /\ run_log.failed
    /\ run_log.failedAt < Len(HubOrder)
    /\ hub_log[HubOrder[run_log.failedAt]].status = "failed"
    /\ HubOrder[Len(HubOrder)] \notin run_log.attempted

\* C3: while a key's cache file exists no network request is made for the
\* key, and no key is fetched with success and written more than once, over
\* all calls and runs.
C3_NoRequestWhenCached ==
    [][\A k \in Keys :
          /\ cache[k].exists => requests'[k] = requests[k]
          /\ fetched'[k] <= 1]_vars

\* C3 witness: in a later run a key is served from the file an earlier run
\* wrote, the key having been requested once.
C3_Witness ==
    /\ run > 1
    /\ last_call.hit
    /\ last_call.raised = ""
    /\ requests[last_call.key] = 1
    /\ fetched[last_call.key] = 1

\* C4 as stated: for the same remote data, a run served from the cache and
\* the run that fetched the data print the same output.
C4_SameOutput ==
    (RunEnded /\ prev_run.pc # "none"
        /\ ~run_log.status_failure /\ ~prev_run.log.status_failure)
    => stdout = prev_run.stdout

\* C4 amended: a cache file holds what a fresh fetch of its key decodes to,
\* and for the same remote data a run served from the cache prints the same
\* hub rows (and the same "error in" line) as the run that fetched the data;
\* the outputs differ in the "getting data for" lines of the fetching run.
C4_SameRows ==
    /\ \A k \in Keys : cache[k].exists =>
          remote[k].known /\ remote[k].json /\ Loads(cache[k].text) = remote[k].js
    /\ (RunEnded /\ prev_run.pc # "none"
          /\ ~run_log.status_failure /\ ~prev_run.log.status_failure)
       => WithoutGetting(stdout) = WithoutGetting(prev_run.stdout)

\* C4 witness: a run served from the cache has printed a full row, the same
\* rows as the run before it, which fetched the data and printed more.
C4_Witness ==
    /\ pc = "done"
    /\ prev_run.pc = "done"
    /\ \A k \in Keys : requests[k] <= 1
    /\ \E i \in 1..Len(stdout) : stdout[i].kind = "row"
    /\ WithoutGetting(stdout) = stdout
    /\ WithoutGetting(prev_run.stdout) = stdout
    /\ Len(prev_run.stdout) > Len(stdout)

\* C5: after any prefix of the hub's geography list, each statistic type's
\* grand total equals the sum of the values of its running-sum mapping.
C5_SumsMatch ==
    \A t \in DOMAIN sums : sums[t] = SumValues(final_totals[t])

\* C5 witness: two geographies with populations have been added.
C5_Witness ==
    /\ pc = "geo"
    /\ geoIdx > 2
    /\ \A t \in DOMAIN sums : sums[t] > 0 /\ sums[t] = SumValues(final_totals[t])

\* C6: a hub whose geography list is empty, or whose geographies were all
\* fetched and give an age grand total of 0, gets exactly one row, the hub's
\* name alone, whatever the race, language and income totals.
C6_DegenerateRow ==
    \A h \in Hubs :
        (hub_log[h].status \in {"printed", "raised"} /\ hub_log[h].sums[AGE_ID] = 0)
        => /\ hub_log[h].status = "printed"
           /\ hub_log[h].lines = <<NameLine(h)>>
           /\ Cardinality(HubLines(stdout, h)) = 1
           /\ \A i \in HubLines(stdout, h) : stdout[i] = NameLine(h)

\* C6 witness: a hub with geographies of zero population and a race total that
\* is not zero, and the hub with no geography, have both been printed.
C6_Witness ==
    /\ hub_log["Hub A"].status = "printed"
    /\ hub_log["Hub A"].sums[AGE_ID] = 0
    /\ hub_log["Hub A"].sums[RACE_ID] > 0
    /\ hub_log["Hub B"].status = "printed"
    /\ hub_log["Hub B"].lines = <<NameLine("Hub B")>>

\* C7: the percentage columns of one statistic type of a full row sum to
\* 100.0 within 0.1 times the number of categories of the type.
C7_PercentSum ==
    pct_out.done =>
        Abs(SumSeq(pct_out.pcts) - 1000) <= Len(pct_out.pcts)

\* C7 witness: six equal race totals give six columns of 16.7, 100.2 in all.
C7_Witness ==
    /\ pct_out.done
    /\ pct_in.table = RACE_ID
    /\ SumSeq(pct_out.pcts) = 1002

\* the column ids whose label is one of the category's labels
Matched(resp, labels) ==
    {c \in DOMAIN resp.columns :
        \E i \in 1..Len(labels) : resp.columns[c] = labels[i]}

\* C8 as stated: a label-based category's total is the integer truncation of
\* the sum of the estimates of the columns whose label is in its label set.
C8_TruncatedSum ==
    (cat_out.done /\ cat_out.raised = "") =>
        \A k \in DOMAIN cat_out.value :
            cat_out.value[k] =
                PyInt(SumSet(Matched(cat_in.resp, Categories(cat_in.table)[k]),
                             cat_in.resp.estimate))

\* C8 amended: a label-based category's total is the sum, over the columns
\* whose label is in its label set, of each estimate truncated to an integer
\* (5 and 7 give 12; 0.5 and 7.5 give 7); a label that matches no column adds
\* zero and raises nothing.
C8_SumOfTruncations ==
    (cat_out.done /\ cat_out.raised = "") =>
        \A k \in DOMAIN cat_out.value :
            LET cols == Matched(cat_in.resp, Categories(cat_in.table)[k])
            IN cat_out.value[k] =
                 SumSet(cols, [c \in cols |-> PyInt(cat_in.resp.estimate[c])])

\* C8 witness: "0-9" matches two columns, of estimates 0.5 and 7.5, and no
\* column carries a label of "10-19"; the totals are 7 and 0.
C8_Witness ==
    /\ cat_out.done
    /\ cat_out.raised = ""
    /\ cat_in.table = AGE_ID
    /\ \E c, d \in Matched(cat_in.resp, age_categories["0-9"]) :
          /\ c # d
          /\ cat_in.resp.estimate[c] = 5
          /\ cat_in.resp.estimate[d] = 75
          /\ Matched(cat_in.resp, age_categories["0-9"]) = {c, d}
    /\ Matched(cat_in.resp, age_categories["10-19"]) = {}
    /\ cat_out.value["0-9"] = 7
    /\ cat_out.value["10-19"] = 0

\* C9 as stated: whenever a call to get_census_data_response fails, the cache
\* files and their contents are as before the call.
C9_FailureLeavesCache ==
    [][(FetchStep /\ last_call'.raised \notin {"", "none"}) => cache' = cache]_vars

\* C9 amended: a call leaves the cache as it was when it is served from the
\* cache, when the status is not 200 and when the body is not JSON; a call
\* answered 200 with a JSON body writes that body to the key's file before the
\* schema load, also when the load then fails.
C9_WrittenBeforeLoad ==
    [][FetchStep =>
          cache' = IF /\ ~last_call'.hit
                      /\ last_call'.status = 200
                      /\ last_call'.raised \in {"", "ValidationError"}
                   THEN [cache EXCEPT ![Key] = File(Dumps(remote'[Key].js))]
                   ELSE cache]_vars

\* C9 witness: a fetched document was refused by the schema and its file is
\* in the cache.
C9_Witness ==
    /\ ~last_call.hit
    /\ last_call.raised = "ValidationError"
    /\ cache[last_call.key].exists
    /\ fetched[last_call.key] = 1

\* C10: a hub whose geographies were all fetched and categorized gets exactly
\* one row and no error; the race, language and income grand totals are not
\* zero when the age grand total is not.
C10_OneRowNoError ==
    \A h \in Hubs :
        hub_log[h].status \in {"printed", "raised"} =>
            /\ hub_log[h].status = "printed"
            /\ Len(hub_log[h].lines) = 1
            /\ hub_log[h].sums[AGE_ID] # 0 =>
                  \A t \in DOMAIN hub_log[h].sums : hub_log[h].sums[t] # 0

====
